---- MODULE Spec2Model ----
(***************************************************************************)
(* The DonutSlicer custom visual (vivibug/donutSlicer): the view-model     *)
(* builder visualTransform and the DonutSlicer class (constructor, update, *)
(* destroy) of the data-bound revision of donutSlicer.ts, together with    *)
(* the parts of d3 v3 it calls (ordinal colour scale, pie layout, data     *)
(* join) in the configuration the source gives them.                       *)
(*                                                                         *)
(* JavaScript values: null/undefined is the record Null; a table cell is   *)
(* Null or Cell(x) for a primitive x; an object is a record whose absent   *)
(* properties are absent fields.  Angles are exact fractions of the full   *)
(* circle, [num, den] standing for 2*pi*num/den; den = 0 is an undefined   *)
(* angle (NaN).                                                            *)
(***************************************************************************)
EXTENDS Integers, Sequences, FiniteSets

VARIABLES
    attached,     \* the svg element is a child of options.element
    svgSize,      \* the svg's width/height attributes, Null until set
    surface,      \* the svg's children: the g elements appended so far
    lastCall,     \* the lifecycle hook the host called last
    outcome,      \* how that call ended: "returned" or "TypeError"
    lastOptions,  \* the argument of the last update
    viewModel,    \* update's local viewModel in the last update
    updates       \* number of update calls so far

vars == <<attached, svgSize, surface, lastCall, outcome, lastOptions, viewModel, updates>>

-----------------------------------------------------------------------------
(* Bounds of the model *)

MaxRows == 2
MaxCount == 2
MaxUpdates == 2

-----------------------------------------------------------------------------
(* JavaScript values *)

Null == [null |-> TRUE]

Thrown == [thrown |-> "TypeError"]

Cell(x) == [v |-> x]

\* ToBoolean of a category cell: null, undefined and "" are falsy
Truthy(cell) == cell # Null /\ cell.v # ""

\* ToNumber of a count cell (unary +): +null is 0
ToNumber(cell) == IF cell = Null THEN 0 ELSE cell.v

Min(a, b) == IF a <= b THEN a ELSE b

RECURSIVE SeqSum(_)
SeqSum(s) == IF s = <<>> THEN 0 ELSE s[1] + SeqSum(Tail(s))

-----------------------------------------------------------------------------
(* visualTransform *)

\* A variant of the loop that also requires a truthy count (slice[0] && slice[1])
RECURSIVE PushRows_truthyCount(_, _)
PushRows_truthyCount(rows, donutDataPoints) ==
    IF rows = <<>> THEN donutDataPoints
    ELSE LET slice == Head(rows) IN
         PushRows_truthyCount(Tail(rows),
                  IF ToNumber(slice[1]) # 0 /\ Truthy(slice[2])
                  THEN Append(donutDataPoints, [count |-> slice[1], category |-> slice[2]])
                  ELSE donutDataPoints)

\* The loop over table.rows: a row is pushed, as {count, category}, when its
\* second cell is truthy.
RECURSIVE PushRows(_, _)
PushRows(rows, donutDataPoints) ==
    IF rows = <<>> THEN donutDataPoints
    ELSE LET slice == Head(rows) IN
         PushRows(Tail(rows),
                  IF Truthy(slice[2])
                  THEN Append(donutDataPoints, [count |-> slice[1], category |-> slice[2]])
                  ELSE donutDataPoints)

visualTransform(options) ==
    IF \/ options = Null
       \/ "dataViews" \notin DOMAIN options
       \/ Len(options.dataViews) = 0
       \/ options.dataViews[1] = Null
    THEN Null
    ELSE LET dataView == options.dataViews[1] IN
         IF "metadata" \notin DOMAIN dataView THEN Thrown   \* .metadata.objects of undefined
         ELSE IF "table" \notin DOMAIN dataView THEN Thrown \* .table.rows of undefined
         ELSE [dataPoints |-> PushRows(dataView.table.rows, <<>>)]

-----------------------------------------------------------------------------
(* d3 v3 as update configures it *)

donutWidth == 50
legendRectSize == 18
legendSpacing == 4

\* d3.scale.category20b(): an ordinal scale over the 20 colours of category20b
category20b ==
    << "#393b79", "#5254a3", "#6b6ecf", "#9c9ede", "#637939",
       "#8ca252", "#b5cf6b", "#cedb9c", "#8c6d31", "#bd9e39",
       "#e7ba52", "#e7cb94", "#843c39", "#ad494a", "#d6616b",
       "#e7969c", "#7b4173", "#a55194", "#ce6dbd", "#de9ed6" >>

PaletteLength == Len(category20b)

\* 1-based position of x in the scale's domain, 0 when x is not in it
IndexIn(domain, x) ==
    LET at == {p \in 1..Len(domain) : domain[p] = x}
    IN IF at = {} THEN 0 ELSE CHOOSE p \in at : \A q \in at : p <= q

\* color(x) extends the domain by an x it has not seen ...
ScaleDomain(domain, x) == IF IndexIn(domain, x) = 0 THEN Append(domain, x) ELSE domain

\* ... and returns range[(position of x in the domain - 1) % range.length]
ScaleColor(domain, x) ==
    category20b[((IndexIn(ScaleDomain(domain, x), x) - 1) % PaletteLength) + 1]

\* String(d) of a non-negative integer, as .text(d) writes it
Digits == <<"0", "1", "2", "3", "4", "5", "6", "7", "8", "9">>

RECURSIVE NumberToString(_)
NumberToString(n) == IF n < 10 THEN Digits[n + 1] ELSE NumberToString(n \div 10) \o Digits[(n % 10) + 1]

\* d3.layout.pie with no .sort(...) call keeps its default comparator: the
\* indices are sorted by descending value, function(i, j) { return values[j] - values[i]; }
\* (Array.prototype.sort is stable: indices of equal value keep their order).
RECURSIVE InsertIndex(_, _, _)
InsertIndex(sorted, i, values) ==
    IF sorted = <<>> THEN <<i>>
    ELSE IF values[i] - values[Head(sorted)] > 0
         THEN <<i>> \o sorted
         ELSE <<Head(sorted)>> \o InsertIndex(Tail(sorted), i, values)

RECURSIVE SortIndex(_, _)
SortIndex(n, values) ==
    IF n = 0 THEN <<>> ELSE InsertIndex(SortIndex(n - 1, values), n, values)

pieSort(values) == SortIndex(Len(values), values)

\* A variant without the guard on the sum: k = (endAngle - startAngle) / sum
pieK_unguarded(sum) == [num |-> 1, den |-> sum]

\* k = sum ? (endAngle - startAngle) / sum : 0, as a fraction of the full circle
pieK(sum) == IF sum # 0 THEN [num |-> 1, den |-> sum] ELSE [num |-> 0, den |-> 1]

\* the angle reached after the values of the first m indices of the sorted order
RECURSIVE AngleAfter(_, _, _)
AngleAfter(index, m, values) ==
    IF m = 0 THEN 0 ELSE AngleAfter(index, m - 1, values) + values[index[m]]

\* pie(data): arcs[i] = {data, value, startAngle: a, endAngle: a += v * k}, the
\* angle a running over the indices in sorted order
pie(data) ==
    LET n == Len(data)
        values == [i \in 1..n |-> ToNumber(data[i])]
        k == pieK(SeqSum(values))
        index == pieSort(values)
        pos(i) == CHOOSE m \in 1..n : index[m] = i
    IN [i \in 1..n |->
          [data |-> data[i],
           value |-> values[i],
           startAngle |-> [num |-> AngleAfter(index, pos(i) - 1, values) * k.num, den |-> k.den],
           endAngle |-> [num |-> AngleAfter(index, pos(i), values) * k.num, den |-> k.den]]]

RECURSIVE ArcCount(_)
ArcCount(groups) ==
    IF groups = <<>> THEN 0 ELSE Len(Head(groups).paths) + ArcCount(Tail(groups))

\* A variant that selects under the svg (this.svg.selectAll('path')): every
\* path drawn so far
selectAllPath_svg(svgChildren, donut) == ArcCount(svgChildren) + Len(donut.paths)

\* selection.selectAll('path') under the g just appended: the path elements
\* that g already holds
selectAllPath(svgChildren, donut) == Len(donut.paths)

\* A variant of the join that also leaves out the datum at the index equal to
\* the number of selected elements
enter_above(selected, data) ==
    [j \in 1..(IF Len(data) > selected + 1 THEN Len(data) - selected - 1 ELSE 0) |-> selected + j]

\* .data(d).enter(): the by-index join leaves in the enter selection the data
\* whose index is not below the number of selected elements (0-based indices)
enter(selected, data) ==
    [j \in 1..(IF Len(data) > selected THEN Len(data) - selected ELSE 0) |-> selected + j - 1]

\* A variant that keys the colour by the datum: color(d.value)
fillKey_value(d, i) == d.value

\* the key color() is called with in the fill function(d, i): the index i
fillKey(d, i) == i

\* the domain of the colour scale after the fill function ran for the first m
\* entered paths
RECURSIVE DomainAfter(_, _, _)
DomainAfter(entered, arcs, m) ==
    IF m = 0 THEN <<>>
    ELSE ScaleDomain(DomainAfter(entered, arcs, m - 1),
                     fillKey(arcs[entered[m] + 1], entered[m]))

Max(a, b) == IF a >= b THEN a ELSE b

\* A variant of the arc generator that takes the radii as configured
arc_unclamped(innerRadius, outerRadius) == [r0 |-> innerRadius, r1 |-> outerRadius]

\* d3.svg.arc(): the radii the d attribute is drawn with,
\* r0 = Math.max(0, +innerRadius), r1 = Math.max(0, +outerRadius), swapped if r1 < r0
arc(innerRadius, outerRadius) ==
    LET r0 == Max(0, innerRadius)
        r1 == Max(0, outerRadius)
    IN IF r1 < r0 THEN [r0 |-> r1, r1 |-> r0] ELSE [r0 |-> r0, r1 |-> r1]

\* .append('path').attr({d: arc, fill: color(i)}) for every entered datum
appendPaths(entered, arcs, radius) ==
    [m \in 1..Len(entered) |->
        [arc |-> arcs[entered[m] + 1],
         innerRadius |-> radius - donutWidth,
         outerRadius |-> radius,
         d |-> arc(radius - donutWidth, radius),
         fill |-> ScaleColor(DomainAfter(entered, arcs, m - 1),
                             fillKey(arcs[entered[m] + 1], entered[m]))]]

\* the legend: one g.legend per element of color.domain(), translated to its
\* row, holding a rect filled and stroked with color(d) and a text d
appendLegend(domain) ==
    [j \in 1..Len(domain) |->
        LET i == j - 1
            d == domain[j]
            height == legendRectSize + legendSpacing
            offset == (height * Len(domain)) \div 2
        IN [transform |-> <<-2 * legendRectSize, i * height - offset>>,
            rect |-> [width |-> legendRectSize, height |-> legendRectSize,
                      fill |-> ScaleColor(domain, d), stroke |-> ScaleColor(domain, d)],
            text |-> [x |-> legendRectSize + legendSpacing, y |-> legendRectSize,
                      text |-> NumberToString(d)]]]

-----------------------------------------------------------------------------
(* What the host passes to update *)

\* viewport sizes (even, so that width / 2 and height / 2 are integers)
Viewports == { [width |-> 0, height |-> 0],
               [width |-> 60, height |-> 200],
               [width |-> 200, height |-> 120] }

CountCells == {Null} \cup {Cell(c) : c \in 0..MaxCount}

CategoryCells == {Null, Cell(""), Cell("A"), Cell("B")}

TableRows == CountCells \X CategoryCells

\* a table with more rows than the colour scale has colours
LongTable == [i \in 1..(PaletteLength + MaxRows) |-> <<Cell(1), Cell("A")>>]

Tables == UNION { [1..n -> TableRows] : n \in 0..MaxRows } \cup {LongTable}

DataViews ==
    { [metadata |-> [objects |-> Null], table |-> [rows |-> rows]] : rows \in Tables }
    \cup { [metadata |-> [objects |-> Null]],
           [table |-> [rows |-> <<>>]],
           Null }

Options ==
    {Null}
    \cup { [viewport |-> vp] : vp \in Viewports }
    \cup { [viewport |-> vp, dataViews |-> <<>>] : vp \in Viewports }
    \cup { [viewport |-> vp, dataViews |-> <<dv>>] : vp \in Viewports, dv \in DataViews }

-----------------------------------------------------------------------------
(* DonutSlicer *)

\* constructor: d3.select(options.element).append('svg')
Init ==
    /\ attached = TRUE
    /\ svgSize = Null
    /\ surface = <<>>
    /\ lastCall = "constructor"
    /\ outcome = "returned"
    /\ lastOptions = Null
    /\ viewModel = Null
    /\ updates = 0

\* what update appends to the svg for a view model
donutGroup(svgChildren, dataPoints, width, height) ==
    LET radius == Min(width, height) \div 2
        donut == [transform |-> <<width \div 2, height \div 2>>, paths |-> <<>>, legend |-> <<>>]
        arcs == pie([n \in 1..Len(dataPoints) |-> dataPoints[n].count])
        entered == enter(selectAllPath(svgChildren, donut), arcs)
    IN [donut EXCEPT !.paths = appendPaths(entered, arcs, radius),
                     !.legend = appendLegend(DomainAfter(entered, arcs, Len(entered)))]

\* update(options); the host calls it serially, and not after destroy
update(options) ==
    /\ updates < MaxUpdates
    /\ lastCall # "destroy"
    /\ lastCall' = "update"
    /\ lastOptions' = options
    /\ updates' = updates + 1
    /\ viewModel' = visualTransform(options)
    /\ UNCHANGED attached
    /\ IF viewModel' = Thrown \/ options = Null
       THEN \* visualTransform threw, or options.viewport of null
            /\ outcome' = "TypeError"
            /\ UNCHANGED <<svgSize, surface>>
       ELSE LET width == options.viewport.width
                height == options.viewport.height
            IN /\ svgSize' = [width |-> width, height |-> height]
               /\ IF viewModel' = Null
                  THEN \* viewModel.dataPoints of null, after the g was appended
                       /\ surface' = Append(surface, donutGroup(surface, <<>>, width, height))
                       /\ outcome' = "TypeError"
                  ELSE /\ surface' = Append(surface, donutGroup(surface, viewModel'.dataPoints, width, height))
                       /\ outcome' = "returned"

\* destroy(): the body is empty
destroy ==
    /\ lastCall' = "destroy"
    /\ outcome' = "returned"
    /\ UNCHANGED <<attached, svgSize, surface, lastOptions, viewModel, updates>>

Next ==
    \/ \E options \in Options : update(options)
    \/ destroy

Spec == Init /\ [][Next]_vars

\* A host that binds data once and from then on only resizes: every later
\* update carries the data of the first one and any viewport.
resized(options, vp) == IF options = Null THEN Null ELSE [options EXCEPT !.viewport = vp]

dataBinding == updates = 0 /\ \E options \in Options : update(options)

resize == updates > 0 /\ \E vp \in Viewports : update(resized(lastOptions, vp))

NextResize ==
    \/ dataBinding
    \/ resize
    \/ destroy

SpecResize == Init /\ [][NextResize]_vars

-----------------------------------------------------------------------------
(* Vocabulary of the properties *)

\* the update record, its dataViews or dataViews[0] is absent
Absent(options) ==
    \/ options = Null
    \/ "dataViews" \notin DOMAIN options
    \/ options.dataViews = <<>>
    \/ options.dataViews[1] = Null

IsViewModel(vm) == DOMAIN vm = {"dataPoints"}

\* the last call was an update that ran to its end
Drawn == lastCall = "update" /\ outcome = "returned"

LastGroup == surface[Len(surface)]

RECURSIVE LegendCount(_)
LegendCount(groups) ==
    IF groups = <<>> THEN 0 ELSE Len(Head(groups).legend) + LegendCount(Tail(groups))

\* the rows of the table the last update was given
InputRows == lastOptions.dataViews[1].table.rows

ValidCategory(row) == row[2] # Null /\ row[2] # Cell("")

KeptRows == SelectSeq(InputRows, ValidCategory)

Counts == [i \in 1..Len(viewModel.dataPoints) |-> ToNumber(viewModel.dataPoints[i].count)]

\* a < b for two angles
AngleLess(a, b) == a.num * b.den < b.num * a.den

-----------------------------------------------------------------------------
(* C1: visualTransform returns null exactly when the update record, its     *)
(* dataViews or dataViews[0] is absent, and returns a view model for every  *)
(* other input.                                                             *)
C1_NullIffAbsent ==
    updates > 0 =>
        /\ (viewModel = Null) <=> Absent(lastOptions)
        /\ ~Absent(lastOptions) => IsViewModel(viewModel)

(* C2: when visualTransform returns null, update clears every arc and       *)
(* legend row drawn before and returns without an error.                    *)
C2_NullClearsSurface ==
    (lastCall = "update" /\ viewModel = Null) =>
        /\ outcome = "returned"
        /\ ArcCount(surface) = 0
        /\ LegendCount(surface) = 0

(* C3: after any sequence of updates the surface holds exactly the arcs and *)
(* legend rows of the most recent update: as many arcs as the latest view   *)
(* model has data points.                                                   *)
C3_FullRedraw ==
    Drawn =>
        /\ ArcCount(surface) = Len(viewModel.dataPoints)
        /\ LegendCount(surface) = Len(viewModel.dataPoints)

(* C4: an update called with the options of the update before it issues the *)
(* same draw instructions: the same svg size and a g with the same          *)
(* transform, arcs, fills and legend rows.                                  *)
C4_Idempotent ==
    [][(Drawn /\ lastCall' = "update" /\ lastOptions' = lastOptions)
          => /\ outcome' = "returned"
             /\ svgSize' = svgSize
             /\ Len(surface') = Len(surface) + 1
             /\ surface'[Len(surface')] = LastGroup]_vars

C4_Witness ==
    /\ Drawn
    /\ Len(surface) >= 2
    /\ LastGroup = surface[Len(surface) - 1]
    /\ Len(LastGroup.paths) >= 2

(* C5: the data points are the input rows with a valid category, all of     *)
(* them (count 0 included, duplicates included), in their order, and        *)
(* nothing else.                                                            *)
C5_DropsExactlyInvalid ==
    (updates > 0 /\ IsViewModel(viewModel)) =>
        /\ Len(viewModel.dataPoints) = Len(KeptRows)
        /\ \A i \in 1..Len(KeptRows) :
              /\ viewModel.dataPoints[i].count = KeptRows[i][1]
              /\ viewModel.dataPoints[i].category = KeptRows[i][2]

C5_Witness ==
    /\ updates > 0
    /\ IsViewModel(viewModel)
    /\ Len(InputRows) = 2
    /\ \E i \in 1..2 : ~ValidCategory(InputRows[i])
    /\ \E i \in 1..2 : ValidCategory(InputRows[i]) /\ InputRows[i][1] = Cell(0)

(* C6: the data points are in input row order, and the arcs, by their       *)
(* angular position around the donut, and the legend rows, top to bottom,   *)
(* follow that order (an arc of span 0 has no position and is left out).    *)
C6_OrderPreserved ==
    Drawn =>
        /\ \A i \in 1..Len(KeptRows) : viewModel.dataPoints[i].category = KeptRows[i][2]
        /\ \A i, j \in 1..Len(LastGroup.paths) :
              (i < j /\ LastGroup.paths[i].arc.value > 0 /\ LastGroup.paths[j].arc.value > 0)
                 => AngleLess(LastGroup.paths[i].arc.startAngle,
                              LastGroup.paths[j].arc.startAngle)
        /\ \A i, j \in 1..Len(LastGroup.legend) :
              i < j => LastGroup.legend[i].transform[2] < LastGroup.legend[j].transform[2]

(* C7: an update record that is absent, or whose first data view lacks its  *)
(* table or its metadata, raises no error.                                  *)
C7_NeverThrows ==
    (/\ lastCall = "update"
     /\ \/ lastOptions = Null
        \/ /\ ~Absent(lastOptions)
           /\ {"metadata", "table"} \ DOMAIN lastOptions.dataViews[1] # {})
    => outcome = "returned"

C9_DestroyReleases ==
    [][/\ lastCall' = "destroy" => ~attached'
       /\ (lastCall = "destroy" /\ lastCall' = "destroy") => UNCHANGED vars]_vars

(* C10: in every g an update has drawn, the arc at position i is filled     *)
(* with colour i mod 20 of category20b.                                     *)
C10_FillByIndex ==
    \A g \in 1..Len(surface) :
        \A m \in 1..Len(surface[g].paths) :
            surface[g].paths[m].fill = category20b[((m - 1) % PaletteLength) + 1]

C10_Witness ==
    /\ Len(surface) >= 2
    /\ \A g \in 1..2 :
          /\ Len(surface[g].paths) > PaletteLength
          /\ surface[g].paths[PaletteLength + 1].fill = category20b[1]
          /\ surface[g].paths[2].fill = category20b[2]

(* C11: after an update with n data points the legend has n rows, and row i *)
(* shows a square filled with the colour of arc i and the category of data  *)
(* point i as its text.                                                     *)
C11_LegendRows ==
    Drawn =>
        /\ Len(LastGroup.legend) = Len(viewModel.dataPoints)
        /\ \A i \in 1..Len(LastGroup.legend) :
              /\ LastGroup.legend[i].rect.fill = LastGroup.paths[i].fill
              /\ LastGroup.legend[i].text.text = viewModel.dataPoints[i].category.v

C13_CountDefined ==
    (updates > 0 /\ IsViewModel(viewModel)) =>
        \A i \in 1..Len(viewModel.dataPoints) :
            /\ viewModel.dataPoints[i].count # Null
            /\ viewModel.dataPoints[i].count.v >= 0
            /\ KeptRows[i][1] = Null => viewModel.dataPoints[i].count = Cell(0)

====
